---- MODULE Spec2Model ----
(***************************************************************************)
(* Loan lifecycle and repayment recording of the microfinance backend.     *)
(*                                                                         *)
(* The stores are the MongoDB collections (loans, repayments, customers).  *)
(* Every route handler is an async function: between two awaits it runs    *)
(* without interruption, at an await another request may run.  A request   *)
(* in flight keeps its own copy of the document it loaded (doc) and the    *)
(* values that copy had when it was last read or written (orig);           *)
(* document.save() writes only the paths whose value differs from orig.    *)
(* Dates are day numbers; amounts are whole currency units.                *)
(***************************************************************************)
EXTENDS Integers, Sequences, FiniteSets, TLC

\* ---------------------------------------------------------------- bounds
MaxReqs == 2          \* requests in flight at the same time
MaxLoans == 1         \* loan documents ever inserted
MaxRepayments == 2    \* repayment documents ever inserted
MaxTime == 1          \* days the clock may advance
MaxCustomers == 2     \* customer documents ever inserted by a registration
MaxCreates == 3       \* loan documents ever inserted when loans are deleted too

\* ------------------------------------------------------------ value sets
Slots == 1..MaxReqs
LoanOids == 1..MaxLoans
Days == 31..(31 + MaxTime)

NoDate == 0
NoUser == "none"
NoReason == ""
NoLoan == 0
NoLoanId == 0
NoUnit == ""
NoCustomer == 0
NoCustId == 0
NoStaffId == 0
CustIds == {1, 2, 3}

Admins == {"adm"}
Users == Admins \cup {"off", "off2"}
Role(u) == IF u \in Admins THEN "Admin" ELSE "Loan Officer"

Emails == {"admin@godswill.org", "ada@godswill.org", "bob@godswill.org"}
Passwords == {"Admin@123", "Secret12"}
Roles == {"Admin", "Loan Officer"}

LoanProducts == {"Monthly", "Weekly", "Daily"}
TenureUnits == {"days", "weeks", "months"}
LoanStatuses == {"Pending", "Approved", "Rejected", "Disbursed", "Active",
                 "Completed", "Overdue", "Defaulted"}
MinPrincipal == 1000
MinPayment == 1

Get(body, f, dflt) == IF f \in DOMAIN body THEN body[f] ELSE dflt
Has(body, f) == f \in DOMAIN body

\* ------------------------------------------------------------- rationals
\* a / b of two JavaScript numbers that are whole: the pair <<n, d>> in
\* lowest terms; d = 0 stands for the Infinity (or NaN) of a division by 0.
RECURSIVE Gcd(_, _)
Gcd(a, b) == IF b = 0 THEN a ELSE Gcd(b, a % b)

Ratio(n, d) ==
  IF d = 0 THEN <<(IF n = 0 THEN 0 ELSE 1), 0>>
  ELSE IF n = 0 THEN <<0, 1>>
  ELSE LET g == Gcd(n, d) IN <<n \div g, d \div g>>

Whole(n) == <<n, 1>>

\* !x of a JavaScript number
Falsy(n) == n = 0
FalsyRatio(q) == q[1] = 0

\* -------------------------------------------------------------- calendar
\* Day numbers count from 1 = 1 January of a year of 365 days.
MonthLen == <<31, 28, 31, 30, 31, 30, 31, 31, 30, 31, 30, 31>>

RECURSIVE DaysBefore(_)
DaysBefore(m) == IF m <= 1 THEN 0 ELSE MonthLen[m - 1] + DaysBefore(m - 1)

YearLen == DaysBefore(13)

RECURSIVE MonthOf(_, _)
MonthOf(doy, m) ==
  IF doy <= DaysBefore(m) + MonthLen[m] THEN m ELSE MonthOf(doy, m + 1)

\* Date.prototype.setMonth(getMonth() + n): same day of the month, n months
\* later; a day past the end of that month runs over into the next one.
AddMonths(day, n) ==
  LET year == (day - 1) \div YearLen
      doy == ((day - 1) % YearLen) + 1
      m == MonthOf(doy, 1)
      dom == doy - DaysBefore(m)
      tm == (m - 1) + n
      ty == year + (tm \div 12)
      mm == (tm % 12) + 1
  IN ty * YearLen + DaysBefore(mm) + dom

AddDays(day, n) == day + n

\* ------------------------------------------------------------- variables
VARIABLES
  loans,        \* Loan collection: _id -> document
  loanOids,     \* number of Loan _ids handed out so far
  repayments,   \* Repayment collection, in insertion order
  customers,    \* Customer collection: _id -> document
  custOids,     \* number of Customer _ids handed out so far
  issued,       \* the identifiers stored by successful inserts, in issue order
  userDocs,     \* User collection: email -> document
  reqs,         \* requests in flight, by slot
  now           \* the clock (day number)

vars ==
  <<loans, loanOids, repayments, customers, custOids, issued, userDocs, reqs, now>>

IdleReq == [op |-> "idle", pc |-> "idle", user |-> NoUser, lid |-> NoLoan,
            doc |-> <<>>, orig |-> <<>>, arg |-> <<>>, code |-> 0]

\* res.status(code).json(...): the handler of slot s has answered.
Done(s, op, lid, code) ==
  reqs' = [reqs EXCEPT ![s] = [IdleReq EXCEPT !.op = op, !.pc = "done",
                                              !.lid = lid, !.code = code]]

Idle(s) == reqs[s].op = "idle"

\* A new request takes the lowest free slot.
FreeSlot(s) == Idle(s) /\ \A t \in Slots : t < s => ~Idle(t)

\* The response leaves the server; the slot is free again.
Reply(s) ==
  /\ reqs[s].pc = "done"
  /\ reqs' = [reqs EXCEPT ![s] = IdleReq]
  /\ UNCHANGED <<loans, loanOids, repayments, customers, custOids, issued, now, userDocs>>

Stored(l) == l \in DOMAIN loans

\* Date.now(): the clock may have advanced since it was last read.
ClockReads == {t \in Days : t >= now}

\* ------------------------------------------------------- Loan documents
\* new Loan(loanData): the schema defaults, then the fields of loanData.
NewLoan(data) ==
  [loanId |-> NoLoanId,
   customer |-> data.customer,
   loanProduct |-> data.loanProduct,
   principalAmount |-> data.principalAmount,
   interestRate |-> data.interestRate,
   interestAmount |-> data.interestAmount,
   totalPayable |-> data.totalPayable,
   tenure |-> data.tenure,
   tenureUnit |-> data.tenureUnit,
   installmentAmount |-> Whole(data.installmentAmount),
   approvalDate |-> NoDate,
   disbursementDate |-> NoDate,
   startDate |-> Get(data, "startDate", NoDate),
   endDate |-> NoDate,
   totalPaid |-> 0,
   interestPaid |-> 0,
   principalPaid |-> 0,
   remainingBalance |-> 0,
   status |-> "Pending",
   createdBy |-> data.createdBy,
   approvedBy |-> NoUser,
   disbursedBy |-> NoUser,
   rejectionReason |-> NoReason,
   rejectedAt |-> NoDate]

\* The schema's validators, which document.save() runs before the
\* pre('save') hooks: required paths, enum members, the minimum principal.
LoanValid(data) ==
  /\ Has(data, "customer")
  /\ Has(data, "loanProduct") /\ data.loanProduct \in LoanProducts
  /\ Has(data, "principalAmount") /\ data.principalAmount >= MinPrincipal
  /\ Has(data, "interestRate")
  /\ Has(data, "interestAmount")
  /\ Has(data, "totalPayable")
  /\ Has(data, "tenure")
  /\ Has(data, "tenureUnit") /\ data.tenureUnit \in TenureUnits
  /\ Has(data, "installmentAmount")
  /\ Has(data, "createdBy")

\* LoanSchema.pre('save'), first hook: the loan identifier, LOAN + the
\* number count + 1 padded to six digits (the number stands for the string).
PreSaveLoanId(doc, count) ==
  IF doc.loanId = NoLoanId THEN [doc EXCEPT !.loanId = count + 1] ELSE doc

ProductRate(product) ==
  CASE product = "Monthly" -> 25
    [] product = "Weekly" -> 27
    [] product = "Daily" -> 18

ProductUnit(product) ==
  CASE product = "Monthly" -> "months"
    [] product = "Weekly" -> "weeks"
    [] product = "Daily" -> "days"

\* An end date that counts a week as one day.
EndDateOfShortWeeks(start, tenure, unit) ==
  CASE unit = "days" -> AddDays(start, tenure)
    [] unit = "weeks" -> AddDays(start, tenure)
    [] unit = "months" -> AddMonths(start, tenure)
    [] OTHER -> NoDate

\* The end date of the second hook: setDate / setMonth on the start date.
EndDateOf(start, tenure, unit) ==
  CASE unit = "days" -> AddDays(start, tenure)
    [] unit = "weeks" -> AddDays(start, tenure * 7)
    [] unit = "months" -> AddMonths(start, tenure)
    [] OTHER -> NoDate

\* LoanSchema.pre('save'), second hook.
PreSaveCalc(doc) ==
  LET d1 == IF Falsy(doc.interestRate) /\ doc.loanProduct \in LoanProducts
            THEN [doc EXCEPT !.interestRate = ProductRate(doc.loanProduct),
                             !.tenureUnit = IF doc.tenureUnit = NoUnit
                                            THEN ProductUnit(doc.loanProduct)
                                            ELSE doc.tenureUnit]
            ELSE doc
      d2 == IF Falsy(d1.interestAmount)
            THEN [d1 EXCEPT !.interestAmount =
                              (d1.principalAmount * d1.interestRate) \div 100]
            ELSE d1
      d3 == IF Falsy(d2.totalPayable)
            THEN [d2 EXCEPT !.totalPayable = d2.principalAmount + d2.interestAmount]
            ELSE d2
      d4 == IF FalsyRatio(d3.installmentAmount)
            THEN [d3 EXCEPT !.installmentAmount = Ratio(d3.totalPayable, d3.tenure)]
            ELSE d3
      d5 == [d4 EXCEPT !.remainingBalance = d4.totalPayable - d4.totalPaid]
  IN IF d5.startDate # NoDate /\ d5.endDate = NoDate
     THEN [d5 EXCEPT !.endDate = EndDateOf(d5.startDate, d5.tenure, d5.tenureUnit)]
     ELSE d5

\* document.save() of a loaded document: updateOne({_id}, {$set: the
\* modified paths}); the other paths of the stored document stay as they are.
Merge(stored, doc, orig) ==
  [f \in DOMAIN stored |-> IF doc[f] # orig[f] THEN doc[f] ELSE stored[f]]

\* Model.findByIdAndUpdate(id, body): $set of the body's paths.
ApplyUpdate(stored, body) ==
  [f \in DOMAIN stored |->
     IF f \notin DOMAIN body THEN stored[f]
     ELSE IF f = "installmentAmount" THEN Whole(body[f])
     ELSE body[f]]

\* --------------------------------------------------- POST /api/loans
TenureOverCeiling(body) ==
  /\ Has(body, "loanProduct") /\ Has(body, "tenure")
  /\ \/ body.loanProduct = "Monthly" /\ body.tenure > 6
     \/ body.loanProduct = "Weekly" /\ body.tenure > 24
     \/ body.loanProduct = "Daily" /\ body.tenure > 20

CreatesInFlight ==
  Cardinality({s \in Slots : reqs[s].op = "create" /\ reqs[s].pc # "done"})

\* Fewer than max Loan documents were inserted or are about to be.
MayCreate(max) == loanOids + CreatesInFlight < max

\* Customer.findById, the customer and tenure checks, new Loan(loanData)
\* and its validation.
CreateLoanCheck(s, u, body) ==
  /\ FreeSlot(s)
  /\ LET c == Get(body, "customer", NoCustomer)
         data == [f \in (DOMAIN body \ {"startDate"}) \cup {"createdBy"} |->
                    IF f = "createdBy" THEN u ELSE body[f]]
         loanData == IF Has(body, "startDate") /\ body.startDate # NoDate
                     THEN [f \in DOMAIN data \cup {"startDate"} |->
                             IF f = "startDate" THEN body.startDate ELSE data[f]]
                     ELSE data
     IN IF c \notin DOMAIN customers
        THEN /\ Done(s, "create", NoLoan, 404)
        ELSE IF customers[c].status # "Approved"
        THEN /\ Done(s, "create", NoLoan, 400)
        ELSE IF TenureOverCeiling(body)
        THEN /\ Done(s, "create", NoLoan, 400)
        ELSE IF ~LoanValid(loanData)
        THEN /\ Done(s, "create", NoLoan, 500)
        ELSE /\ reqs' = [reqs EXCEPT ![s] =
                  [op |-> "create", pc |-> "count", user |-> u, lid |-> NoLoan,
                   doc |-> NewLoan(loanData), orig |-> <<>>, arg |-> <<>>,
                   code |-> 0]]
  /\ UNCHANGED <<loans, loanOids, repayments, customers, custOids, issued, now, userDocs>>

\* countDocuments() of the first hook, then the second hook.
CreateLoanCount(s) ==
  /\ reqs[s].op = "create" /\ reqs[s].pc = "count"
  /\ reqs' = [reqs EXCEPT ![s].pc = "insert",
                          ![s].doc = PreSaveCalc(PreSaveLoanId(reqs[s].doc,
                                         Cardinality(DOMAIN loans)))]
  /\ UNCHANGED <<loans, loanOids, repayments, customers, custOids, issued, now, userDocs>>

\* The insert; the unique index on loanId refuses a duplicate.
CreateLoanInsert(s) ==
  /\ reqs[s].op = "create" /\ reqs[s].pc = "insert"
  /\ IF \E l \in DOMAIN loans : loans[l].loanId = reqs[s].doc.loanId
     THEN /\ Done(s, "create", NoLoan, 500)
          /\ UNCHANGED <<loans, loanOids, issued>>
     ELSE /\ loans' = loans @@ ((loanOids + 1) :> reqs[s].doc)
          /\ loanOids' = loanOids + 1
          /\ issued' = [issued EXCEPT !.loan = Append(@, reqs[s].doc.loanId)]
          /\ Done(s, "create", loanOids + 1, 201)
  /\ UNCHANGED <<repayments, customers, custOids, now, userDocs>>

\* ------------------------------------------------- saving a loaded loan
\* await loan.save(): the hooks run on the request's copy, then the modified
\* paths are written; a document that is no longer stored makes save throw.
Saved(s) == PreSaveCalc(reqs[s].doc)

SaveWrites(s) ==
  loans' = [loans EXCEPT ![reqs[s].lid] = Merge(@, Saved(s), reqs[s].orig)]

\* Model.findById(id) at the start of a handler that loads one loan.
Load(s, op, u, l, pc, doc, arg) ==
  reqs' = [reqs EXCEPT ![s] = [op |-> op, pc |-> pc, user |-> u, lid |-> l,
                               doc |-> doc, orig |-> loans[l], arg |-> arg,
                               code |-> 0]]

\* --------------------------------------- PUT /api/loans/:id/approve
\* A guard that only turns away rejected loans.
ApproveRefusesRejectedOnly(status) == status = "Rejected"

ApproveRefuses(status) == status # "Pending"

ApproveLoad(s, u, l) ==
  /\ FreeSlot(s)
  /\ IF Role(u) # "Admin"
     THEN Done(s, "approve", l, 403) /\ UNCHANGED now
     ELSE IF ~Stored(l)
     THEN Done(s, "approve", l, 404) /\ UNCHANGED now
     ELSE IF ApproveRefuses(loans[l].status)
     THEN Done(s, "approve", l, 400) /\ UNCHANGED now
     ELSE \E t \in ClockReads :
            /\ now' = t
            /\ Load(s, "approve", u, l, "save",
                    [loans[l] EXCEPT !.status = "Approved", !.approvedBy = u,
                                     !.approvalDate = t], <<>>)
  /\ UNCHANGED <<loans, loanOids, repayments, customers, custOids, issued, userDocs>>

ApproveSave(s) ==
  /\ reqs[s].op = "approve" /\ reqs[s].pc = "save"
  /\ IF Stored(reqs[s].lid)
     THEN SaveWrites(s) /\ Done(s, "approve", reqs[s].lid, 200)
     ELSE UNCHANGED loans /\ Done(s, "approve", reqs[s].lid, 500)
  /\ UNCHANGED <<loanOids, repayments, customers, custOids, issued, now, userDocs>>

\* ---------------------------------------- PUT /api/loans/:id/reject
RejectRefuses(status) == status # "Pending"

RejectLoad(s, u, l, reason) ==
  /\ FreeSlot(s)
  /\ IF Role(u) # "Admin"
     THEN Done(s, "reject", l, 403) /\ UNCHANGED now
     ELSE IF reason = NoReason
     THEN Done(s, "reject", l, 400) /\ UNCHANGED now
     ELSE IF ~Stored(l)
     THEN Done(s, "reject", l, 404) /\ UNCHANGED now
     ELSE IF RejectRefuses(loans[l].status)
     THEN Done(s, "reject", l, 400) /\ UNCHANGED now
     ELSE \E t \in ClockReads :
            /\ now' = t
            /\ Load(s, "reject", u, l, "save",
                    [loans[l] EXCEPT !.status = "Rejected",
                                     !.rejectionReason = reason,
                                     !.rejectedAt = t], <<>>)
  /\ UNCHANGED <<loans, loanOids, repayments, customers, custOids, issued, userDocs>>

RejectSave(s) ==
  /\ reqs[s].op = "reject" /\ reqs[s].pc = "save"
  /\ IF Stored(reqs[s].lid)
     THEN SaveWrites(s) /\ Done(s, "reject", reqs[s].lid, 200)
     ELSE UNCHANGED loans /\ Done(s, "reject", reqs[s].lid, 500)
  /\ UNCHANGED <<loanOids, repayments, customers, custOids, issued, now, userDocs>>

\* -------------------------------------- PUT /api/loans/:id/disburse
DisburseRefuses(status) == status # "Approved"

DisburseLoad(s, u, l) ==
  /\ FreeSlot(s)
  /\ IF Role(u) # "Admin"
     THEN Done(s, "disburse", l, 403) /\ UNCHANGED now
     ELSE IF ~Stored(l)
     THEN Done(s, "disburse", l, 404) /\ UNCHANGED now
     ELSE IF DisburseRefuses(loans[l].status)
     THEN Done(s, "disburse", l, 400) /\ UNCHANGED now
     ELSE \E t \in ClockReads :
            /\ now' = t
            /\ Load(s, "disburse", u, l, "save1",
                    [loans[l] EXCEPT !.status = "Disbursed", !.disbursedBy = u,
                                     !.disbursementDate = t, !.startDate = t],
                    <<>>)
  /\ UNCHANGED <<loans, loanOids, repayments, customers, custOids, issued, userDocs>>

\* The first save, then loan.status = 'Active' on the request's copy.
DisburseSave1(s) ==
  /\ reqs[s].op = "disburse" /\ reqs[s].pc = "save1"
  /\ IF Stored(reqs[s].lid)
     THEN /\ SaveWrites(s)
          /\ reqs' = [reqs EXCEPT ![s].pc = "save2",
                                  ![s].orig = Saved(s),
                                  ![s].doc = [Saved(s) EXCEPT !.status = "Active"]]
     ELSE /\ UNCHANGED loans
          /\ Done(s, "disburse", reqs[s].lid, 500)
  /\ UNCHANGED <<loanOids, repayments, customers, custOids, issued, now, userDocs>>

DisburseSave2(s) ==
  /\ reqs[s].op = "disburse" /\ reqs[s].pc = "save2"
  /\ IF Stored(reqs[s].lid)
     THEN SaveWrites(s) /\ Done(s, "disburse", reqs[s].lid, 200)
     ELSE UNCHANGED loans /\ Done(s, "disburse", reqs[s].lid, 500)
  /\ UNCHANGED <<loanOids, repayments, customers, custOids, issued, now, userDocs>>

\* ------------------------------------------- loan.checkOverdue()
\* An overdue test that counts the end date itself as past.
checkOverdueFromEndDate(loan, time) ==
  /\ loan.status = "Active"
  /\ loan.endDate # NoDate /\ time >= loan.endDate
  /\ loan.remainingBalance > 0

\* LoanSchema.methods.checkOverdue; time is what new Date() returns.
checkOverdue(loan, time) ==
  /\ loan.status = "Active"
  /\ loan.endDate # NoDate /\ time > loan.endDate
  /\ loan.remainingBalance > 0

\* A caller loads a loan and calls checkOverdue on it; the returned value
\* is kept in the slot.
CheckOverdueCall(s, l) ==
  /\ FreeSlot(s)
  /\ Stored(l)
  /\ \E t \in ClockReads :
       /\ now' = t
       /\ reqs' = [reqs EXCEPT ![s] =
            [IdleReq EXCEPT !.op = "checkOverdue", !.pc = "done", !.lid = l,
                            !.arg = [returned |-> checkOverdue(loans[l], t)]]]
  /\ UNCHANGED <<loans, loanOids, repayments, customers, custOids, issued, userDocs>>

\* ------------------------------------------------ PUT /api/loans/:id
ProtectedPaths == {"loanId", "createdBy", "approvedBy", "totalPaid", "status"}

CleanBody(body) == [f \in DOMAIN body \ ProtectedPaths |-> body[f]]

\* runValidators: the validators of the paths the update sets.
UpdateValid(body) ==
  /\ Has(body, "loanProduct") => body.loanProduct \in LoanProducts
  /\ Has(body, "principalAmount") => body.principalAmount >= MinPrincipal
  /\ Has(body, "tenureUnit") => body.tenureUnit \in TenureUnits

UpdateRefuses(status) == status # "Pending"

UpdateLoad(s, u, l, body) ==
  /\ FreeSlot(s)
  /\ IF ~Stored(l)
     THEN Done(s, "update", l, 404)
     ELSE IF UpdateRefuses(loans[l].status)
     THEN Done(s, "update", l, 400)
     ELSE IF Role(u) = "Loan Officer" /\ loans[l].createdBy # u
     THEN Done(s, "update", l, 403)
     ELSE /\ Load(s, "update", u, l, "write", loans[l], CleanBody(body))
  /\ UNCHANGED <<loans, loanOids, repayments, customers, custOids, issued, now, userDocs>>

\* Loan.findByIdAndUpdate(id, req.body, {new: true, runValidators: true});
\* no document with that _id: nothing is written and data is null.
UpdateWrite(s) ==
  /\ reqs[s].op = "update" /\ reqs[s].pc = "write"
  /\ IF ~UpdateValid(reqs[s].arg)
     THEN UNCHANGED loans /\ Done(s, "update", reqs[s].lid, 500)
     ELSE /\ Done(s, "update", reqs[s].lid, 200)
          /\ IF Stored(reqs[s].lid)
             THEN loans' = [loans EXCEPT ![reqs[s].lid] = ApplyUpdate(@, reqs[s].arg)]
             ELSE UNCHANGED loans
  /\ UNCHANGED <<loanOids, repayments, customers, custOids, issued, now, userDocs>>

\* --------------------------------------------- DELETE /api/loans/:id
DeleteRefuses(status) == status # "Pending"

DeleteLoad(s, u, l) ==
  /\ FreeSlot(s)
  /\ IF Role(u) # "Admin"
     THEN Done(s, "delete", l, 403)
     ELSE IF ~Stored(l)
     THEN Done(s, "delete", l, 404)
     ELSE IF DeleteRefuses(loans[l].status)
     THEN Done(s, "delete", l, 400)
     ELSE /\ Load(s, "delete", u, l, "delete", loans[l], <<>>)
  /\ UNCHANGED <<loans, loanOids, repayments, customers, custOids, issued, now, userDocs>>

DeleteWrite(s) ==
  /\ reqs[s].op = "delete" /\ reqs[s].pc = "delete"
  /\ loans' = [l \in DOMAIN loans \ {reqs[s].lid} |-> loans[l]]
  /\ Done(s, "delete", reqs[s].lid, 200)
  /\ UNCHANGED <<loanOids, repayments, customers, custOids, issued, now, userDocs>>

\* ------------------------------------------------ POST /api/repayments
\* new Repayment({...}): the fields the handler passes, then the defaults.
NewRepayment(l, customer, amount, remainingBalance, u) ==
  [receiptId |-> 0,
   loan |-> l,
   customer |-> customer,
   paymentAmount |-> amount,
   interestPaid |-> 0,
   principalPaid |-> 0,
   remainingInterest |-> 0,
   remainingPrincipal |-> 0,
   remainingBalance |-> remainingBalance,
   status |-> "Pending",
   recordedBy |-> u]

\* A validator without the minimum of paymentAmount.
RepaymentValidAnyAmount(rec) == rec.paymentAmount \in Int

\* RepaymentSchema's validators: the minimum of paymentAmount.
RepaymentValid(rec) == rec.paymentAmount >= MinPayment

RepaysInFlight ==
  Cardinality({s \in Slots : reqs[s].op = "repay" /\ reqs[s].pc # "done"})

\* The required-fields check, Loan.findById(loan).populate('customer'), the
\* new balances, new Repayment(...) and its validation.
RepayLoad(s, u, l, amount) ==
  /\ FreeSlot(s)
  /\ Len(repayments) + RepaysInFlight < MaxRepayments
  /\ IF Falsy(amount)
     THEN Done(s, "repay", l, 400)
     ELSE IF ~Stored(l)
     THEN Done(s, "repay", l, 404)
     ELSE IF loans[l].customer \notin DOMAIN customers
     THEN Done(s, "repay", l, 500)
     ELSE LET newTotalPaid == loans[l].totalPaid + amount
              remainingBalance == loans[l].totalPayable - newTotalPaid
              rec == NewRepayment(l, loans[l].customer, amount,
                                  remainingBalance, u)
          IN IF ~RepaymentValid(rec)
             THEN Done(s, "repay", l, 500)
             ELSE /\ Load(s, "repay", u, l, "count", loans[l],
                          [rec |-> rec, newTotalPaid |-> newTotalPaid,
                           remainingBalance |-> remainingBalance])
  /\ UNCHANGED <<loans, loanOids, repayments, customers, custOids, issued, now, userDocs>>

\* RepaymentSchema.pre('save'): RCP + count + 1 padded to seven digits.
RepayCount(s) ==
  /\ reqs[s].op = "repay" /\ reqs[s].pc = "count"
  /\ reqs' = [reqs EXCEPT ![s].pc = "insert",
                          ![s].arg.rec.receiptId = Len(repayments) + 1]
  /\ UNCHANGED <<loans, loanOids, repayments, customers, custOids, issued, now, userDocs>>

\* One of the first upTo Repayment documents is for loan l and amount a.
SameAmountRecorded(l, a, upTo) ==
  \E i \in 1..upTo : repayments[i].loan = l /\ repayments[i].paymentAmount = a

\* An insert that keeps one Repayment per loan and amount.
RepayInsertOnce(s) ==
  /\ reqs[s].op = "repay" /\ reqs[s].pc = "insert"
  /\ repayments' = IF SameAmountRecorded(reqs[s].lid, reqs[s].arg.rec.paymentAmount,
                                         Len(repayments))
                   THEN repayments
                   ELSE Append(repayments, reqs[s].arg.rec)
  /\ reqs' = [reqs EXCEPT ![s].pc = "save"]
  /\ UNCHANGED <<loans, loanOids, customers, custOids, issued, now, userDocs>>

\* The insert (unique index on receiptId), then the two assignments to the
\* request's copy of the loan.
RepayInsert(s) ==
  /\ reqs[s].op = "repay" /\ reqs[s].pc = "insert"
  /\ IF \E i \in 1..Len(repayments) :
          repayments[i].receiptId = reqs[s].arg.rec.receiptId
     THEN /\ Done(s, "repay", reqs[s].lid, 500)
          /\ UNCHANGED repayments
     ELSE /\ repayments' = Append(repayments, reqs[s].arg.rec)
          /\ reqs' = [reqs EXCEPT
                        ![s].pc = "save",
                        ![s].doc.totalPaid = reqs[s].arg.newTotalPaid,
                        ![s].doc.remainingBalance = reqs[s].arg.remainingBalance]
  /\ UNCHANGED <<loans, loanOids, customers, custOids, issued, now, userDocs>>

RepaySave(s) ==
  /\ reqs[s].op = "repay" /\ reqs[s].pc = "save"
  /\ IF Stored(reqs[s].lid)
     THEN SaveWrites(s) /\ Done(s, "repay", reqs[s].lid, 201)
     ELSE UNCHANGED loans /\ Done(s, "repay", reqs[s].lid, 500)
  /\ UNCHANGED <<loanOids, repayments, customers, custOids, issued, now, userDocs>>

\* --------------------------------------------------- Customer documents
CustomerStatuses == {"Pending", "Approved", "Rejected", "Active", "Inactive"}

\* new Customer({...req.body, createdBy}): the paths of the body, then the
\* schema defaults.
NewCustomer(data) ==
  [customerId |-> Get(data, "customerId", NoCustId),
   status |-> Get(data, "status", "Pending"),
   createdBy |-> data.createdBy,
   approvedBy |-> Get(data, "approvedBy", NoUser),
   approvedAt |-> Get(data, "approvedAt", NoDate),
   rejectionReason |-> Get(data, "rejectionReason", NoReason),
   rejectedAt |-> Get(data, "rejectedAt", NoDate)]

\* A customer as the customer routes leave it: registered by a loan officer,
\* numbered by the hook, approved by approver on day at (or not yet).
StoredCustomer(id, status, approver, at) ==
  [NewCustomer([createdBy |-> "off"]) EXCEPT !.customerId = id, !.status = status,
                                              !.approvedBy = approver,
                                              !.approvedAt = at]

\* The schema's validators: the required paths (firstName stands for them)
\* and the status enum.
CustomerValid(data) ==
  /\ Has(data, "firstName")
  /\ Has(data, "createdBy")
  /\ Get(data, "status", "Pending") \in CustomerStatuses

\* findOne({}, {customerId: 1}).sort({customerId: -1}): the highest
\* customerId stored, 0 when there is none.
LastCustomerId ==
  IF DOMAIN customers = {} THEN 0
  ELSE CHOOSE n \in {customers[c].customerId : c \in DOMAIN customers} :
         \A c \in DOMAIN customers : customers[c].customerId <= n

\* CustomerSchema.pre('save'): CUST + the number last + 1 padded to five
\* digits (the number stands for the string).
PreSaveCustomerId(doc, last) ==
  IF doc.customerId = NoCustId THEN [doc EXCEPT !.customerId = last + 1] ELSE doc

\* Customer.findById(id) at the start of a handler that loads one customer.
LoadCustomer(s, op, u, c, pc, doc, arg) ==
  reqs' = [reqs EXCEPT ![s] = [op |-> op, pc |-> pc, user |-> u, lid |-> c,
                               doc |-> doc, orig |-> customers[c], arg |-> arg,
                               code |-> 0]]

\* ------------------------------------------------ POST /api/customers
RegistersInFlight ==
  Cardinality({s \in Slots : reqs[s].op = "register" /\ reqs[s].pc # "done"})

\* new Customer(customerData) and its validation.
RegisterCheck(s, u, body) ==
  /\ FreeSlot(s)
  /\ custOids + RegistersInFlight < MaxCustomers
  /\ LET customerData == [f \in DOMAIN body \cup {"createdBy"} |->
                            IF f = "createdBy" THEN u ELSE body[f]]
     IN IF ~CustomerValid(customerData)
        THEN Done(s, "register", NoCustomer, 500)
        ELSE reqs' = [reqs EXCEPT ![s] =
               [op |-> "register", pc |-> "last", user |-> u, lid |-> NoCustomer,
                doc |-> NewCustomer(customerData), orig |-> <<>>, arg |-> <<>>,
                code |-> 0]]
  /\ UNCHANGED <<loans, loanOids, repayments, customers, custOids, issued, now, userDocs>>

\* The hook's findOne of the highest customerId.
RegisterLast(s) ==
  /\ reqs[s].op = "register" /\ reqs[s].pc = "last"
  /\ reqs' = [reqs EXCEPT ![s].pc = "insert",
                          ![s].doc = PreSaveCustomerId(reqs[s].doc, LastCustomerId)]
  /\ UNCHANGED <<loans, loanOids, repayments, customers, custOids, issued, now, userDocs>>

\* The insert; the unique index on customerId refuses a duplicate.
RegisterInsert(s) ==
  /\ reqs[s].op = "register" /\ reqs[s].pc = "insert"
  /\ IF \E c \in DOMAIN customers : customers[c].customerId = reqs[s].doc.customerId
     THEN /\ Done(s, "register", NoCustomer, 500)
          /\ UNCHANGED <<customers, custOids, issued>>
     ELSE /\ customers' = customers @@ ((custOids + 1) :> reqs[s].doc)
          /\ custOids' = custOids + 1
          /\ issued' = [issued EXCEPT !.customer = Append(@, reqs[s].doc.customerId)]
          /\ Done(s, "register", custOids + 1, 201)
  /\ UNCHANGED <<loans, loanOids, repayments, now, userDocs>>

\* ---------------------------------------------- PUT /api/customers/:id
CustomerProtectedPaths == {"customerId", "createdBy", "approvedBy", "approvedAt"}

CleanCustomerBody(body) ==
  [f \in DOMAIN body \ CustomerProtectedPaths |-> body[f]]

\* runValidators: the validators of the paths the update sets.
CustomerUpdateValid(body) ==
  Has(body, "status") => body.status \in CustomerStatuses

CustomerUpdateLoad(s, u, c, body) ==
  /\ FreeSlot(s)
  /\ IF c \notin DOMAIN customers
     THEN Done(s, "amend", c, 404)
     ELSE IF Role(u) = "Loan Officer" /\ customers[c].createdBy # u
     THEN Done(s, "amend", c, 403)
     ELSE LoadCustomer(s, "amend", u, c, "write", customers[c],
                       CleanCustomerBody(body))
  /\ UNCHANGED <<loans, loanOids, repayments, customers, custOids, issued, now, userDocs>>

\* Customer.findByIdAndUpdate(id, req.body, {new: true, runValidators: true}).
CustomerUpdateWrite(s) ==
  /\ reqs[s].op = "amend" /\ reqs[s].pc = "write"
  /\ IF ~CustomerUpdateValid(reqs[s].arg)
     THEN UNCHANGED customers /\ Done(s, "amend", reqs[s].lid, 500)
     ELSE /\ Done(s, "amend", reqs[s].lid, 200)
          /\ IF reqs[s].lid \in DOMAIN customers
             THEN customers' = [customers EXCEPT ![reqs[s].lid] =
                                  [f \in DOMAIN @ |->
                                     IF Has(reqs[s].arg, f) THEN reqs[s].arg[f]
                                     ELSE @[f]]]
             ELSE UNCHANGED customers
  /\ UNCHANGED <<loans, loanOids, repayments, custOids, issued, now, userDocs>>

\* -------------------------------------- PUT /api/customers/:id/approve
CustomerApproveRefuses(status) == status # "Pending"

CustomerApproveLoad(s, u, c) ==
  /\ FreeSlot(s)
  /\ IF Role(u) # "Admin"
     THEN Done(s, "admit", c, 403) /\ UNCHANGED now
     ELSE IF c \notin DOMAIN customers
     THEN Done(s, "admit", c, 404) /\ UNCHANGED now
     ELSE IF CustomerApproveRefuses(customers[c].status)
     THEN Done(s, "admit", c, 400) /\ UNCHANGED now
     ELSE \E t \in ClockReads :
            /\ now' = t
            /\ LoadCustomer(s, "admit", u, c, "save",
                            [customers[c] EXCEPT !.status = "Approved",
                                                 !.approvedBy = u,
                                                 !.approvedAt = t],
                            <<>>)
  /\ UNCHANGED <<loans, loanOids, repayments, customers, custOids, issued, userDocs>>

\* await customer.save(): the modified paths are written; a document that
\* is no longer stored makes save throw.
CustomerSave(s, op) ==
  /\ reqs[s].op = op /\ reqs[s].pc = "save"
  /\ IF reqs[s].lid \in DOMAIN customers
     THEN /\ customers' = [customers EXCEPT ![reqs[s].lid] =
                             Merge(@, reqs[s].doc, reqs[s].orig)]
          /\ Done(s, op, reqs[s].lid, 200)
     ELSE UNCHANGED customers /\ Done(s, op, reqs[s].lid, 500)
  /\ UNCHANGED <<loans, loanOids, repayments, custOids, issued, now, userDocs>>

CustomerApproveSave(s) == CustomerSave(s, "admit")

\* --------------------------------------- PUT /api/customers/:id/reject
CustomerRejectRefuses(status) == status # "Pending"

CustomerRejectLoad(s, u, c, reason) ==
  /\ FreeSlot(s)
  /\ IF Role(u) # "Admin"
     THEN Done(s, "turnDown", c, 403) /\ UNCHANGED now
     ELSE IF reason = NoReason
     THEN Done(s, "turnDown", c, 400) /\ UNCHANGED now
     ELSE IF c \notin DOMAIN customers
     THEN Done(s, "turnDown", c, 404) /\ UNCHANGED now
     ELSE IF CustomerRejectRefuses(customers[c].status)
     THEN Done(s, "turnDown", c, 400) /\ UNCHANGED now
     ELSE \E t \in ClockReads :
            /\ now' = t
            /\ LoadCustomer(s, "turnDown", u, c, "save",
                            [customers[c] EXCEPT !.status = "Rejected",
                                                 !.rejectionReason = reason,
                                                 !.rejectedAt = t],
                            <<>>)
  /\ UNCHANGED <<loans, loanOids, repayments, customers, custOids, issued, userDocs>>

CustomerRejectSave(s) == CustomerSave(s, "turnDown")

\* ------------------------------------------- DELETE /api/customers/:id
\* Customer.findByIdAndDelete(id): one write, whatever the status.
CustomerDelete(s, u, c) ==
  /\ FreeSlot(s)
  /\ IF Role(u) # "Admin"
     THEN Done(s, "remove", c, 403) /\ UNCHANGED customers
     ELSE IF c \notin DOMAIN customers
     THEN Done(s, "remove", c, 404) /\ UNCHANGED customers
     ELSE /\ customers' = [d \in DOMAIN customers \ {c} |-> customers[d]]
          /\ Done(s, "remove", c, 200)
  /\ UNCHANGED <<loans, loanOids, repayments, custOids, issued, now, userDocs>>

\* ------------------------------------------------------- User documents
\* bcrypt.hash(x, salt): the salt is left out, bcrypt.compare finds it in
\* the hash itself.
Hash(x) == <<"bcrypt", x>>

\* bcrypt.compare(entered, stored).
Compare(entered, stored) == stored = Hash(entered)

\* new User({...}): the fields the callers pass, then the defaults.
NewUser(password, role, staffId) ==
  [password |-> password, role |-> role, staffId |-> staffId,
   isActive |-> TRUE, lastLogin |-> NoDate]

\* UserSchema.pre('save'): the password is hashed when it is a modified path
\* (on a new document every path that was set is), then the staffId.
PreSaveUser(doc, passwordModified, count) ==
  LET hashed == IF passwordModified
                THEN [doc EXCEPT !.password = Hash(doc.password)]
                ELSE doc
  IN IF hashed.staffId = NoStaffId
     THEN [hashed EXCEPT !.staffId = count + 1]
     ELSE hashed

UserCount == Cardinality(DOMAIN userDocs)

\* User.create({..., password: hashedPassword, staffId}) as the seed script
\* and POST /register call it, with hashedPassword = bcrypt.hash(password).
CreatedUser(password, role, count) ==
  PreSaveUser(NewUser(Hash(password), role, count + 1), TRUE, count)

\* scripts/seedAdmin.js, run while no admin@godswill.org exists.
SeedAdmin ==
  /\ "admin@godswill.org" \notin DOMAIN userDocs
  /\ userDocs' = userDocs @@
       ("admin@godswill.org" :> CreatedUser("Admin@123", "Admin", UserCount))
  /\ UNCHANGED <<loans, loanOids, repayments, customers, custOids, issued, reqs, now>>

\* ------------------------------------------- POST /api/auth/register
\* The request carries the token of the stored user u.
RegisterUser(s, u, email, password, role) ==
  /\ FreeSlot(s)
  /\ u \in DOMAIN userDocs
  /\ IF userDocs[u].role # "Admin"
     THEN Done(s, "registerUser", NoLoan, 403) /\ UNCHANGED userDocs
     ELSE IF role \notin Roles
     THEN Done(s, "registerUser", NoLoan, 400) /\ UNCHANGED userDocs
     ELSE IF email \in DOMAIN userDocs
     THEN Done(s, "registerUser", NoLoan, 400) /\ UNCHANGED userDocs
     ELSE /\ userDocs' = userDocs @@ (email :> CreatedUser(password, role, UserCount))
          /\ Done(s, "registerUser", NoLoan, 201)
  /\ UNCHANGED <<loans, loanOids, repayments, customers, custOids, issued, now>>

\* ---------------------------------------------- POST /api/auth/login
Login(s, email, password) ==
  /\ FreeSlot(s)
  /\ IF email \notin DOMAIN userDocs
     THEN Done(s, "login", NoLoan, 401) /\ UNCHANGED <<userDocs, now>>
     ELSE IF ~userDocs[email].isActive
     THEN Done(s, "login", NoLoan, 401) /\ UNCHANGED <<userDocs, now>>
     ELSE IF ~Compare(password, userDocs[email].password)
     THEN Done(s, "login", NoLoan, 401) /\ UNCHANGED <<userDocs, now>>
     ELSE \E t \in ClockReads :
            /\ now' = t
            /\ userDocs' = [userDocs EXCEPT ![email] =
                 PreSaveUser([@ EXCEPT !.lastLogin = t], FALSE, UserCount)]
            /\ Done(s, "login", NoLoan, 200)
  /\ UNCHANGED <<loans, loanOids, repayments, customers, custOids, issued>>

\* ------------------------------------- PUT /api/auth/change-password
ChangePassword(s, u, currentPassword, newPassword) ==
  /\ FreeSlot(s)
  /\ u \in DOMAIN userDocs
  /\ IF ~Compare(currentPassword, userDocs[u].password)
     THEN Done(s, "changePassword", NoLoan, 401) /\ UNCHANGED userDocs
     ELSE /\ userDocs' = [userDocs EXCEPT ![u] =
               PreSaveUser([@ EXCEPT !.password = Hash(newPassword)], TRUE,
                           UserCount)]
          /\ Done(s, "changePassword", NoLoan, 200)
  /\ UNCHANGED <<loans, loanOids, repayments, customers, custOids, issued, now>>

\* ------------------------------ PUT /api/auth/users/:id/toggle-status
ToggleStatus(s, u, email) ==
  /\ FreeSlot(s)
  /\ u \in DOMAIN userDocs
  /\ IF userDocs[u].role # "Admin"
     THEN Done(s, "toggleStatus", NoLoan, 403) /\ UNCHANGED userDocs
     ELSE IF email = u
     THEN Done(s, "toggleStatus", NoLoan, 400) /\ UNCHANGED userDocs
     ELSE IF email \notin DOMAIN userDocs
     THEN Done(s, "toggleStatus", NoLoan, 404) /\ UNCHANGED userDocs
     ELSE /\ userDocs' = [userDocs EXCEPT ![email] =
               PreSaveUser([@ EXCEPT !.isActive = ~@], FALSE, UserCount)]
          /\ Done(s, "toggleStatus", NoLoan, 200)
  /\ UNCHANGED <<loans, loanOids, repayments, customers, custOids, issued, now>>

\* ------------------------------------------------------ request inputs
BaseBody(c) ==
  [customer |-> c, loanProduct |-> "Monthly", principalAmount |-> 1000,
   tenure |-> 1, interestRate |-> 25, interestAmount |-> 250,
   totalPayable |-> 1250, tenureUnit |-> "months", installmentAmount |-> 1250]

LoanBodies ==
  {BaseBody(c) : c \in CustIds}
    \cup {[BaseBody(1) EXCEPT !.tenure = 7]}
    \cup {[f \in DOMAIN BaseBody(1) \ {"interestRate"} |-> BaseBody(1)[f]]}

UpdateBodies ==
  {[tenure |-> 2, status |-> "Active", totalPaid |-> 500],
   [principalAmount |-> 500]}

Reasons == {NoReason, "declined"}
PayAmounts == {0 - 50, 0, 500, 750}

\* ------------------------------------------------------- specification
Init ==
  /\ loans = <<>>
  /\ loanOids = 0
  /\ repayments = <<>>
  /\ customers = (1 :> StoredCustomer(1, "Approved", "adm", 31))
                   @@ (2 :> StoredCustomer(2, "Pending", NoUser, NoDate))
  /\ custOids = 2
  /\ issued = [customer |-> <<1, 2>>, loan |-> <<>>]
  /\ userDocs = ("admin@godswill.org" :> CreatedUser("Admin@123", "Admin", 0))
                  @@ ("ada@godswill.org" :> CreatedUser("Secret12", "Loan Officer", 1))
  /\ reqs = [s \in Slots |-> IdleReq]
  /\ now = 31

\* A request arrives and runs up to its first await.
Arrive ==
  \/ \E s \in Slots, body \in LoanBodies :
       MayCreate(MaxLoans) /\ CreateLoanCheck(s, "off", body)
  \/ \E s \in Slots, u \in Admins \cup {"off"}, l \in LoanOids : ApproveLoad(s, u, l)
  \/ \E s \in Slots, u \in Admins \cup {"off"}, l \in LoanOids, r \in Reasons :
       RejectLoad(s, u, l, r)
  \/ \E s \in Slots, u \in Admins \cup {"off"}, l \in LoanOids : DisburseLoad(s, u, l)
  \/ \E s \in Slots, u \in Users, l \in LoanOids, body \in UpdateBodies :
       UpdateLoad(s, u, l, body)
  \/ \E s \in Slots, u \in Admins \cup {"off"}, l \in LoanOids : DeleteLoad(s, u, l)
  \/ \E s \in Slots, l \in LoanOids, a \in PayAmounts : RepayLoad(s, "off", l, a)

\* A request in flight runs from one await to the next.
Resume ==
  \/ \E s \in Slots : CreateLoanCount(s)
  \/ \E s \in Slots : CreateLoanInsert(s)
  \/ \E s \in Slots : ApproveSave(s)
  \/ \E s \in Slots : RejectSave(s)
  \/ \E s \in Slots : DisburseSave1(s)
  \/ \E s \in Slots : DisburseSave2(s)
  \/ \E s \in Slots : UpdateWrite(s)
  \/ \E s \in Slots : DeleteWrite(s)
  \/ \E s \in Slots : RepayCount(s)
  \/ \E s \in Slots : RepayInsert(s)
  \/ \E s \in Slots : RepaySave(s)
  \/ \E s \in Slots : Reply(s)

\* Requests interleave at their awaits.
Next == Arrive \/ Resume

Spec == Init /\ [][Next]_vars

\* One request at a time: a request arrives only when no other is in flight.
Quiet == \A s \in Slots : Idle(s)

SeqNext == (Quiet /\ Arrive) \/ Resume

SeqSpec == Init /\ [][SeqNext]_vars

\* The customer routes on their own, from an empty Customer collection.
CustomerBodies ==
  {[firstName |-> "Ada"], [firstName |-> "Ada", status |-> "Approved"],
   [status |-> "Pending"]}

CustomerUpdateBodies ==
  {[status |-> "Pending"], [status |-> "Rejected", approvedBy |-> "off"]}

CustOids == 1..MaxCustomers

CustInit ==
  /\ loans = <<>>
  /\ loanOids = 0
  /\ repayments = <<>>
  /\ customers = <<>>
  /\ custOids = 0
  /\ issued = [customer |-> <<>>, loan |-> <<>>]
  /\ userDocs = ("admin@godswill.org" :> CreatedUser("Admin@123", "Admin", 0))
                  @@ ("ada@godswill.org" :> CreatedUser("Secret12", "Loan Officer", 1))
  /\ reqs = [s \in Slots |-> IdleReq]
  /\ now = 31

CustArrive ==
  \/ \E s \in Slots, body \in CustomerBodies : RegisterCheck(s, "off", body)
  \/ \E s \in Slots, c \in CustOids, body \in CustomerUpdateBodies :
       CustomerUpdateLoad(s, "off", c, body)
  \/ \E s \in Slots, u \in Admins \cup {"off"}, c \in CustOids :
       CustomerApproveLoad(s, u, c)
  \/ \E s \in Slots, u \in Admins, c \in CustOids, r \in Reasons :
       CustomerRejectLoad(s, u, c, r)
  \/ \E s \in Slots, u \in Admins, c \in CustOids : CustomerDelete(s, u, c)

CustResume ==
  \/ \E s \in Slots : RegisterLast(s)
  \/ \E s \in Slots : RegisterInsert(s)
  \/ \E s \in Slots : CustomerUpdateWrite(s)
  \/ \E s \in Slots : CustomerApproveSave(s)
  \/ \E s \in Slots : CustomerRejectSave(s)
  \/ \E s \in Slots : Reply(s)

CustNext == CustArrive \/ CustResume

CustSpec == CustInit /\ [][CustNext]_vars

\* The customer routes, one request at a time.
CustSeqNext == (Quiet /\ CustArrive) \/ CustResume

CustSeqSpec == CustInit /\ [][CustSeqNext]_vars

\* Creation, approval and disbursement, one request at a time, for loans of
\* every product, with and without a start date given at creation.
DisburseBodies ==
  {BaseBody(1),
   [startDate |-> 31] @@ BaseBody(1),
   [BaseBody(1) EXCEPT !.loanProduct = "Weekly", !.tenure = 2,
                       !.interestRate = 27, !.interestAmount = 270,
                       !.totalPayable = 1270, !.tenureUnit = "weeks",
                       !.installmentAmount = 635],
   [BaseBody(1) EXCEPT !.loanProduct = "Daily", !.tenure = 10,
                       !.interestRate = 18, !.interestAmount = 180,
                       !.totalPayable = 1180, !.tenureUnit = "days",
                       !.installmentAmount = 118]}

DisburseArrive ==
  \/ \E s \in Slots, body \in DisburseBodies :
       MayCreate(MaxLoans) /\ CreateLoanCheck(s, "off", body)
  \/ \E s \in Slots, u \in Admins, l \in LoanOids : ApproveLoad(s, u, l)
  \/ \E s \in Slots, u \in Admins \cup {"off"}, l \in LoanOids : DisburseLoad(s, u, l)

DisburseResume ==
  \/ \E s \in Slots : CreateLoanCount(s)
  \/ \E s \in Slots : CreateLoanInsert(s)
  \/ \E s \in Slots : ApproveSave(s)
  \/ \E s \in Slots : DisburseSave1(s)
  \/ \E s \in Slots : DisburseSave2(s)
  \/ \E s \in Slots : Reply(s)

DisburseNext == (Quiet /\ DisburseArrive) \/ DisburseResume

DisburseSpec == Init /\ [][DisburseNext]_vars

\* Creation, update, approval, rejection and disbursement, one request at a
\* time, with update bodies that set paths the update handler does not take
\* out of the body.
EditBodies == {[customer |-> 2], [totalPayable |-> 1500], [tenure |-> 7]}

EditArrive ==
  \/ \E s \in Slots, body \in LoanBodies :
       MayCreate(MaxLoans) /\ CreateLoanCheck(s, "off", body)
  \/ \E s \in Slots, u \in Users, l \in LoanOids, body \in EditBodies :
       UpdateLoad(s, u, l, body)
  \/ \E s \in Slots, u \in Admins, l \in LoanOids : ApproveLoad(s, u, l)
  \/ \E s \in Slots, u \in Admins, l \in LoanOids, r \in Reasons :
       RejectLoad(s, u, l, r)
  \/ \E s \in Slots, u \in Admins, l \in LoanOids : DisburseLoad(s, u, l)

EditResume ==
  \/ \E s \in Slots : CreateLoanCount(s)
  \/ \E s \in Slots : CreateLoanInsert(s)
  \/ \E s \in Slots : UpdateWrite(s)
  \/ \E s \in Slots : ApproveSave(s)
  \/ \E s \in Slots : RejectSave(s)
  \/ \E s \in Slots : DisburseSave1(s)
  \/ \E s \in Slots : DisburseSave2(s)
  \/ \E s \in Slots : Reply(s)

EditNext == (Quiet /\ EditArrive) \/ EditResume

EditSpec == Init /\ [][EditNext]_vars

\* The life of a loan with checkOverdue calls, one request at a time, for
\* loans whose end date is today, which a start date given at creation makes
\* possible, and loans without a start date.
OverdueBodies ==
  {[startDate |-> 21] @@
     [BaseBody(1) EXCEPT !.loanProduct = "Daily", !.tenure = 10,
                         !.interestRate = 18, !.interestAmount = 180,
                         !.totalPayable = 1180, !.tenureUnit = "days",
                         !.installmentAmount = 118],
   BaseBody(1)}

OverdueArrive ==
  \/ \E s \in Slots, body \in OverdueBodies :
       MayCreate(MaxLoans) /\ CreateLoanCheck(s, "off", body)
  \/ \E s \in Slots, u \in Admins, l \in LoanOids : ApproveLoad(s, u, l)
  \/ \E s \in Slots, u \in Admins, l \in LoanOids : DisburseLoad(s, u, l)
  \/ \E s \in Slots, l \in LoanOids : RepayLoad(s, "off", l, 750)
  \/ \E s \in Slots, l \in LoanOids : CheckOverdueCall(s, l)

OverdueResume ==
  \/ \E s \in Slots : CreateLoanCount(s)
  \/ \E s \in Slots : CreateLoanInsert(s)
  \/ \E s \in Slots : ApproveSave(s)
  \/ \E s \in Slots : DisburseSave1(s)
  \/ \E s \in Slots : DisburseSave2(s)
  \/ \E s \in Slots : RepayCount(s)
  \/ \E s \in Slots : RepayInsert(s)
  \/ \E s \in Slots : RepaySave(s)
  \/ \E s \in Slots : Reply(s)

OverdueNext == (Quiet /\ OverdueArrive) \/ OverdueResume

OverdueSpec == Init /\ [][OverdueNext]_vars
\* The seed script and the auth routes from an empty User collection, one
\* handler at a time and each handler as one step.
AuthInit ==
  /\ loans = <<>>
  /\ loanOids = 0
  /\ repayments = <<>>
  /\ customers = <<>>
  /\ custOids = 0
  /\ issued = [customer |-> <<>>, loan |-> <<>>]
  /\ userDocs = <<>>
  /\ reqs = [s \in Slots |-> IdleReq]
  /\ now = 31

AuthNext ==
  \/ Quiet /\ SeedAdmin
  \/ \E s \in Slots, u, email \in Emails, password \in Passwords, role \in Roles :
       Quiet /\ RegisterUser(s, u, email, password, role)
  \/ \E s \in Slots, email \in Emails, password \in Passwords :
       Quiet /\ Login(s, email, password)
  \/ \E s \in Slots, u \in Emails, current, new \in Passwords :
       Quiet /\ ChangePassword(s, u, current, new)
  \/ \E s \in Slots, u, email \in Emails : Quiet /\ ToggleStatus(s, u, email)
  \/ \E s \in Slots : Reply(s)

AuthSpec == AuthInit /\ [][AuthNext]_vars
\* Creation and deletion of loans, one request at a time, with request
\* bodies that lack fields or carry values outside the documented ranges.
BareBody(product) ==
  [customer |-> 1, loanProduct |-> product, principalAmount |-> 10000,
   tenure |-> 3]

Without(body, fields) == [f \in DOMAIN body \ fields |-> body[f]]

PartialBodies ==
  {Without(BaseBody(1), {"installmentAmount"}),
   Without(BaseBody(1), {"tenureUnit"}),
   Without(BaseBody(1), {"interestAmount", "totalPayable"})}

CreateBodies ==
  {BaseBody(1),
   [BaseBody(1) EXCEPT !.tenure = 0],
   [BaseBody(1) EXCEPT !.principalAmount = 500],
   [BaseBody(1) EXCEPT !.loanProduct = "Yearly"]}
    \cup {BareBody(product) : product \in LoanProducts}
    \cup PartialBodies

CreateOids == 1..MaxCreates

CreateArrive ==
  \/ \E s \in Slots, body \in CreateBodies :
       MayCreate(MaxCreates) /\ CreateLoanCheck(s, "off", body)
  \/ \E s \in Slots, u \in Admins, l \in CreateOids : DeleteLoad(s, u, l)

CreateResume ==
  \/ \E s \in Slots : CreateLoanCount(s)
  \/ \E s \in Slots : CreateLoanInsert(s)
  \/ \E s \in Slots : DeleteWrite(s)
  \/ \E s \in Slots : Reply(s)

CreateNext == (Quiet /\ CreateArrive) \/ CreateResume

CreateSpec == Init /\ [][CreateNext]_vars

\* ============================================================ properties
Min(a, b) == IF a <= b THEN a ELSE b
Max(a, b) == IF a >= b THEN a ELSE b

RECURSIVE SumUpTo(_, _, _)
SumUpTo(i, l, f) ==
  IF i = 0 THEN 0
  ELSE SumUpTo(i - 1, l, f)
         + (IF repayments[i].loan = l THEN repayments[i][f] ELSE 0)

\* The sum of field f over the Repayment documents of loan l.
SumOf(l, f) == SumUpTo(Len(repayments), l, f)

\* Slot s holds a repayment request that has passed the handler's checks.
RepayInFlight(s) == reqs[s].op = "repay" /\ reqs[s].pc # "done"

NoRepayInFlight == \A s \in Slots : ~RepayInFlight(s)

\* This step is the loan save that ends a successful repayment request.
RepaySucceeds(s) ==
  /\ reqs[s].op = "repay" /\ reqs[s].pc = "save"
  /\ reqs'[s].pc = "done" /\ reqs'[s].code = 201

\* The Repayment document a request in flight has inserted.
RecordOf(s) ==
  CHOOSE rec \in {repayments[i] : i \in 1..Len(repayments)} :
    rec.receiptId = reqs[s].arg.rec.receiptId

\* This step is the arrival of an op request for a stored loan.
ArrivesFor(s, op) == Idle(s) /\ reqs'[s].op = op /\ Stored(reqs'[s].lid)

\* C1: every change of a stored loan's status follows an edge of the loan
\* state machine, so a Rejected, Completed or Defaulted loan never changes
\* status again.
LegalEdges ==
  {<<"Pending", "Approved">>, <<"Pending", "Rejected">>,
   <<"Approved", "Disbursed">>, <<"Disbursed", "Active">>,
   <<"Active", "Completed">>, <<"Active", "Overdue">>, <<"Active", "Defaulted">>,
   <<"Overdue", "Completed">>, <<"Overdue", "Defaulted">>, <<"Overdue", "Active">>}

C1_StatusFollowsEdges ==
  [][\A l \in DOMAIN loans \cap DOMAIN loans' :
       loans'[l].status # loans[l].status
         => <<loans[l].status, loans'[l].status>> \in LegalEdges]_vars

\* C2: no repayment request that pays more than the outstanding balance
\* (totalPayable - totalPaid) of an Active loan passes the handler's checks:
\* it is refused before a Repayment is built or the loan is touched.
C2_OverpaymentRefused ==
  \A s \in Slots :
    RepayInFlight(s) /\ reqs[s].orig.status = "Active"
      => reqs[s].arg.rec.paymentAmount
           <= reqs[s].orig.totalPayable - reqs[s].orig.totalPaid

\* C3: a successful repayment of amount a raises the loan's interestPaid by
\* min(a, remaining interest) and its principalPaid by what is left of a,
\* capped at the remaining principal, and the Repayment document stores those
\* two portions.
C3_InterestFirstWaterfall ==
  [][\A s \in Slots :
       RepaySucceeds(s) =>
         LET before == loans[reqs[s].lid]
             after == loans'[reqs[s].lid]
             a == reqs[s].arg.rec.paymentAmount
             ri == Max(0, before.interestAmount - before.interestPaid)
             rp == Max(0, before.principalAmount - before.principalPaid)
             ip == Min(a, ri)
             pp == Min(a - ip, rp)
         IN /\ after.interestPaid = before.interestPaid + ip
            /\ after.principalPaid = before.principalPaid + pp
            /\ RecordOf(s).interestPaid = ip
            /\ RecordOf(s).principalPaid = pp]_vars

\* C4: in every stored state of a loan, totalPaid = interestPaid + principalPaid.
C4_TotalPaidIsInterestPlusPrincipal ==
  \A l \in DOMAIN loans :
    loans[l].totalPaid = loans[l].interestPaid + loans[l].principalPaid

\* C5: when no repayment request is in progress, the Repayment documents of
\* every loan add up to the loan's totals: paymentAmount to totalPaid,
\* interestPaid to interestPaid, principalPaid to principalPaid.
C5_RepaymentsReconcile ==
  NoRepayInFlight =>
    \A l \in DOMAIN loans :
      /\ SumOf(l, "paymentAmount") = loans[l].totalPaid
      /\ SumOf(l, "interestPaid") = loans[l].interestPaid
      /\ SumOf(l, "principalPaid") = loans[l].principalPaid

\* C6: repayment requests against one loan serialize: the save that ends a
\* successful repayment of amount a raises the stored totalPaid by a and
\* lowers the stored remainingBalance by a, whatever other requests did
\* since this one read the loan.
C6_RepaymentsSerialize ==
  [][\A s \in Slots :
       RepaySucceeds(s) =>
         /\ loans'[reqs[s].lid].totalPaid
              = loans[reqs[s].lid].totalPaid + reqs[s].arg.rec.paymentAmount
         /\ loans'[reqs[s].lid].remainingBalance
              = loans[reqs[s].lid].remainingBalance - reqs[s].arg.rec.paymentAmount]_vars

\* C7: the Repayment insert and the loan update are one atomic write: in no
\* state, also not inside a request, does a stored loan's totalPaid differ
\* from the payments recorded for it.
C7_RecordAndTotalsAtomic ==
  \A l \in DOMAIN loans : SumOf(l, "paymentAmount") = loans[l].totalPaid

\* C8: no repayment request for a loan that is not Active or Overdue passes
\* the handler's checks.
C8_OnlyPayableLoansAccept ==
  \A s \in Slots :
    RepayInFlight(s) => reqs[s].orig.status \in {"Active", "Overdue"}

\* C9: the repayment that brings the remainingBalance of an Active or Overdue
\* loan to 0 stores status Completed in the same save.
C9_PaidOffLoanCompletes ==
  [][\A s \in Slots :
       /\ RepaySucceeds(s)
       /\ loans[reqs[s].lid].status \in {"Active", "Overdue"}
       /\ loans'[reqs[s].lid].remainingBalance = 0
       => loans'[reqs[s].lid].status = "Completed"]_vars

\* C10: an approve or reject request for a loan that is not Pending, and a
\* disburse request for a loan that is not Approved, is answered with an
\* error at once and writes nothing: every field of every loan stays as stored.
Refused(s) ==
  reqs'[s].pc = "done" /\ reqs'[s].code \in {400, 403} /\ loans' = loans

C10_WrongStateRefused ==
  [][\A s \in Slots :
       /\ ArrivesFor(s, "approve") /\ loans[reqs'[s].lid].status # "Pending"
            => Refused(s)
       /\ ArrivesFor(s, "reject") /\ loans[reqs'[s].lid].status # "Pending"
            => Refused(s)
       /\ ArrivesFor(s, "disburse") /\ loans[reqs'[s].lid].status # "Approved"
            => Refused(s)]_vars

C10_Witness ==
  \E s \in Slots :
    /\ reqs[s].op = "approve" /\ reqs[s].pc = "done" /\ reqs[s].code = 400
    /\ Stored(reqs[s].lid) /\ loans[reqs[s].lid].status = "Approved"
    /\ loans[reqs[s].lid].approvalDate # NoDate

\* C11: in every stored state of a loan the stamps agree with the status,
\* whatever way approve, reject and disburse requests interleave: a loan at
\* or past Approved carries approvalDate and approvedBy and a Pending loan
\* carries neither, the rejection date is set exactly when the status is
\* Rejected, and a loan at or past Disbursed carries disbursementDate and
\* disbursedBy while a Pending loan carries neither.
PastApproved ==
  {"Approved", "Disbursed", "Active", "Completed", "Overdue", "Defaulted"}

PastDisbursed == PastApproved \ {"Approved"}

C11_StampsAgreeWithStatus ==
  \A l \in DOMAIN loans :
    LET loan == loans[l] IN
    /\ (loan.approvalDate # NoDate) = (loan.approvedBy # NoUser)
    /\ loan.status \in PastApproved => loan.approvalDate # NoDate
    /\ loan.status = "Pending" => loan.approvalDate = NoDate
    /\ (loan.rejectedAt # NoDate) = (loan.status = "Rejected")
    /\ (loan.disbursementDate # NoDate) = (loan.disbursedBy # NoUser)
    /\ loan.status \in PastDisbursed => loan.disbursementDate # NoDate
    /\ loan.status = "Pending" => loan.disbursementDate = NoDate

\* C12: disbursement takes an Approved loan to Active as one step: no request
\* other than the disburse request itself ever reads a loan whose stored
\* status is Disbursed.
C12_DisbursedNeverSeen ==
  \A s \in Slots :
    reqs[s].op \notin {"idle", "create", "disburse"} /\ reqs[s].pc # "done"
      => reqs[s].orig.status # "Disbursed"

\* C13: the first save of a disburse request stores the instant of the
\* request as startDate and disbursementDate and the acting user as
\* disbursedBy and, when the loan had no endDate, the endDate startDate +
\* tenure days, tenure * 7 days or tenure months according to tenureUnit;
\* the second save keeps all four.
C13_DisburseStamps ==
  [][\A s \in Slots :
       LET before == loans[reqs[s].lid]
           after == loans'[reqs[s].lid]
       IN /\ reqs[s].op = "disburse" /\ reqs[s].pc = "save1"
             /\ reqs'[s].pc = "save2"
             => /\ after.startDate = now
                /\ after.disbursementDate = now
                /\ after.disbursedBy = reqs[s].user
                /\ before.endDate = NoDate
                     => after.endDate =
                          CASE after.tenureUnit = "days" -> now + after.tenure
                            [] after.tenureUnit = "weeks" -> now + after.tenure * 7
                            [] after.tenureUnit = "months" ->
                                 AddMonths(now, after.tenure)
                /\ before.endDate # NoDate => after.endDate = before.endDate
          /\ reqs[s].op = "disburse" /\ reqs[s].pc = "save2"
             /\ reqs'[s].code = 200
             => /\ after.status = "Active"
                /\ after.startDate = before.startDate
                /\ after.disbursementDate = before.disbursementDate
                /\ after.disbursedBy = before.disbursedBy
                /\ after.endDate = before.endDate]_vars

C13_Witness ==
  \E l \in DOMAIN loans :
    /\ loans[l].status = "Active" /\ loans[l].tenureUnit = "weeks"
    /\ loans[l].disbursedBy \in Admins
    /\ loans[l].startDate = loans[l].disbursementDate
    /\ loans[l].endDate = loans[l].startDate + 7 * loans[l].tenure

\* C14: the identifiers issued for one entity type are strictly increasing
\* in issue order, so none is issued twice, also not after the record that
\* held it was deleted.
C14_IdentifiersNeverReused ==
  \A e \in DOMAIN issued :
    \A i, j \in 1..Len(issued[e]) : i < j => issued[e][i] < issued[e][j]

\* C15: customer registrations that run concurrently all succeed: the insert
\* of every registration that passed validation stores a new customer, and
\* the stored customers carry pairwise different customerIds.
C15_ConcurrentRegistrationsSucceed ==
  [][\A s \in Slots :
       reqs[s].op = "register" /\ reqs[s].pc = "insert" /\ reqs'[s].pc = "done"
         => /\ reqs'[s].code = 201
            /\ custOids' = custOids + 1
            /\ \A c, d \in DOMAIN customers' :
                 c # d => customers'[c].customerId # customers'[d].customerId]_vars

\* C17: a customer is stored first with status Pending, and a stored
\* customer's status changes only from Pending to Approved or Rejected, in
\* the save of an Admin's approve or reject request; registration and
\* update never set another status.
C17_CustomerStatusOnce ==
  [][/\ \A c \in DOMAIN customers' \ DOMAIN customers :
          customers'[c].status = "Pending"
     /\ \A c \in DOMAIN customers \cap DOMAIN customers' :
          customers'[c].status # customers[c].status
            => /\ customers[c].status = "Pending"
               /\ customers'[c].status \in {"Approved", "Rejected"}
               /\ \E s \in Slots :
                    /\ reqs[s].op \in {"admit", "turnDown"} /\ reqs[s].pc = "save"
                    /\ reqs[s].lid = c /\ Role(reqs[s].user) = "Admin"]_vars

\* C16: every stored loan references a stored customer whose status is
\* Approved (no request changes a customer here, so the status now is the
\* status when the reference was made): creation refuses other customers
\* and no update points a loan at one.
C16_LoansReferenceApprovedCustomers ==
  \A l \in DOMAIN loans :
    /\ loans[l].customer \in DOMAIN customers
    /\ customers[loans[l].customer].status = "Approved"

\* C18: recording a repayment is not idempotent: a repayment request for a
\* loan that already has a Repayment of the same amount stores one more
\* Repayment, and its successful save raises the loan's totalPaid by the
\* amount again and so changes the loan.
C18_RepaymentNotIdempotent ==
  [][\A s \in Slots :
       LET l == reqs[s].lid
           a == reqs[s].arg.rec.paymentAmount
       IN /\ reqs[s].op = "repay" /\ reqs[s].pc = "insert" /\ reqs'[s].pc = "save"
             /\ SameAmountRecorded(l, a, Len(repayments))
             => /\ Len(repayments') = Len(repayments) + 1
                /\ repayments'[Len(repayments')].paymentAmount = a
                /\ repayments'[Len(repayments')].loan = l
          /\ RepaySucceeds(s) /\ SameAmountRecorded(l, a, Len(repayments) - 1)
             => /\ loans'[l].totalPaid = loans[l].totalPaid + a
                /\ loans'[l] # loans[l]]_vars

C18_Witness ==
  /\ NoRepayInFlight
  /\ \E l \in DOMAIN loans, i, j \in 1..Len(repayments) :
       /\ i < j
       /\ repayments[i].loan = l /\ repayments[j].loan = l
       /\ repayments[i].paymentAmount = repayments[j].paymentAmount
       /\ repayments[i].receiptId # repayments[j].receiptId
       /\ loans[l].totalPaid = 2 * repayments[i].paymentAmount

\* C19: the remainingBalance of every stored loan and of every Repayment is
\* max(0, totalPayable - totalPaid) of its loan at that point, never negative.
C19_RemainingBalanceClamped ==
  /\ \A l \in DOMAIN loans :
       loans[l].remainingBalance
         = Max(0, loans[l].totalPayable - loans[l].totalPaid)
  /\ \A i \in 1..Len(repayments) : repayments[i].remainingBalance >= 0

\* C20: in every stored state of a loan, remainingBalance = totalPayable -
\* totalPaid.
C20_RemainingBalanceIsDifference ==
  \A l \in DOMAIN loans :
    loans[l].remainingBalance = loans[l].totalPayable - loans[l].totalPaid

\* C21: no stored loan has a principalAmount below 1000, a tenure of 0 or
\* less or a loanProduct outside Monthly, Weekly, Daily: creation with such
\* a value fails and stores no loan.
C21_StoredLoansInRange ==
  \A l \in DOMAIN loans :
    /\ loans[l].principalAmount >= MinPrincipal
    /\ loans[l].tenure > 0
    /\ loans[l].loanProduct \in LoanProducts

\* C22: no stored loan has a tenure above the ceiling of its product
\* (Monthly 6, Weekly 24, Daily 20): creation refuses a larger tenure and no
\* update of a Pending loan stores one.
C22_TenureWithinCeiling ==
  \A l \in DOMAIN loans :
    /\ loans[l].loanProduct = "Monthly" => loans[l].tenure <= 6
    /\ loans[l].loanProduct = "Weekly" => loans[l].tenure <= 24
    /\ loans[l].loanProduct = "Daily" => loans[l].tenure <= 20

\* C23: a creation request that supplies only loanProduct, principalAmount
\* and tenure passes validation, and the document it is about to insert has
\* the product's interestRate (25 / 27 / 18) and tenureUnit, interestAmount =
\* principalAmount * interestRate / 100 and totalPayable = principalAmount +
\* interestAmount.
C23_DefaultsFilledAtCreation ==
  [][\A s \in Slots, product \in LoanProducts :
       CreateLoanCheck(s, "off", BareBody(product))
         => /\ reqs'[s].pc = "count"
            /\ LET doc == PreSaveCalc(reqs'[s].doc)
               IN /\ doc.interestRate = ProductRate(product)
                  /\ doc.tenureUnit = ProductUnit(product)
                  /\ doc.interestAmount * 100
                       = doc.principalAmount * doc.interestRate
                  /\ doc.totalPayable
                       = doc.principalAmount + doc.interestAmount]_vars

\* C24: a creation request that supplies some of interestRate,
\* interestAmount, totalPayable, installmentAmount and tenureUnit passes
\* validation, and the document it is about to insert has every supplied
\* value as supplied and the product's tenureUnit when none was supplied.
DerivedPaths == {"interestRate", "interestAmount", "totalPayable"}

C24_SuppliedValuesKept ==
  [][\A s \in Slots, body \in PartialBodies \cup {BaseBody(1)} :
       CreateLoanCheck(s, "off", body)
         => /\ reqs'[s].pc = "count"
            /\ LET doc == PreSaveCalc(reqs'[s].doc)
               IN /\ \A f \in DerivedPaths \cap DOMAIN body : doc[f] = body[f]
                  /\ Has(body, "installmentAmount")
                       => doc.installmentAmount = Whole(body.installmentAmount)
                  /\ doc.tenureUnit = Get(body, "tenureUnit",
                                          ProductUnit(body.loanProduct))]_vars

\* C30: a loan creation request with valid input for an Approved customer,
\* with no other request in flight, is never refused at the insert: the
\* loanId it was given collides with no stored loan, also after Pending
\* loans were deleted.
C30_CreationNeverCollides ==
  [][\A s \in Slots :
       reqs[s].op = "create" /\ reqs[s].pc = "insert" /\ reqs'[s].pc = "done"
         => reqs'[s].code = 201]_vars

\* C25: checkOverdue returns true exactly when the loan is Active, has an
\* endDate earlier than the time of the call and a remainingBalance above 0,
\* and the call changes no field of any loan.
C25_CheckOverdueIsPure ==
  [][\A s \in Slots :
       Idle(s) /\ reqs'[s].op = "checkOverdue"
         => LET loan == loans[reqs'[s].lid]
            IN /\ reqs'[s].arg.returned
                    = (/\ loan.status = "Active"
                       /\ loan.endDate # NoDate
                       /\ loan.endDate < now'
                       /\ loan.remainingBalance > 0)
               /\ loans' = loans]_vars

C25_Witness ==
  \E s \in Slots :
    /\ reqs[s].op = "checkOverdue" /\ reqs[s].arg.returned
    /\ Stored(reqs[s].lid) /\ loans[reqs[s].lid].status = "Active"
    /\ loans[reqs[s].lid].endDate < now
    /\ loans[reqs[s].lid].remainingBalance > 0

\* C26: a repayment request with a paymentAmount of 0 or less is answered
\* with an error at once: it inserts no Repayment and leaves every loan,
\* totalPaid and remainingBalance included, as stored.
C26_NonPositivePaymentRefused ==
  [][\A s \in Slots, l \in LoanOids, a \in PayAmounts :
       a <= 0 /\ RepayLoad(s, "off", l, a)
         => /\ reqs'[s].pc = "done" /\ reqs'[s].code \in {400, 404, 500}
            /\ repayments' = repayments
            /\ loans' = loans]_vars

C26_Witness ==
  \E s \in Slots :
    /\ reqs[s].op = "repay" /\ reqs[s].pc = "done" /\ reqs[s].code = 500
    /\ Stored(reqs[s].lid)
    /\ loans[reqs[s].lid].totalPaid = 0
    /\ loans[reqs[s].lid].remainingBalance = loans[reqs[s].lid].totalPayable
    /\ repayments = <<>>

\* C27: after the seed script, a register request or a change-password
\* request has stored a user with password p, the stored password verifies
\* against p, so a login with p succeeds while the account is active; and
\* every stored password verifies against some password (none is the hash of
\* a hash).
C27_StoredPasswordVerifies ==
  [][/\ SeedAdmin
          => Compare("Admin@123", userDocs'["admin@godswill.org"].password)
     /\ \A s \in Slots, u, email \in Emails, password \in Passwords, role \in Roles :
          RegisterUser(s, u, email, password, role) /\ reqs'[s].code = 201
            => Compare(password, userDocs'[email].password)
     /\ \A s \in Slots, u \in Emails, current, new \in Passwords :
          ChangePassword(s, u, current, new) /\ reqs'[s].code = 200
            => Compare(new, userDocs'[u].password)
     /\ \A email \in DOMAIN userDocs' :
          \E password \in Passwords : Compare(password, userDocs'[email].password)]_vars

\* C28: an update write or a delete takes effect only on a loan whose stored
\* status at the time of the write is Pending, however the request
\* interleaves with approve and reject requests.
C28_WritesOnlyWhilePending ==
  [][\A s \in Slots :
       /\ reqs[s].op \in {"update", "delete"}
       /\ reqs[s].pc \in {"write", "delete"} /\ reqs'[s].pc = "done"
       /\ loans' # loans
       => loans[reqs[s].lid].status = "Pending"]_vars

\* C29: the endDate of every Active loan is its startDate plus its tenure in
\* its tenureUnit.
C29_ActiveEndDateFollowsStart ==
  \A l \in DOMAIN loans :
    loans[l].status = "Active"
      => loans[l].endDate =
           CASE loans[l].tenureUnit = "days" -> loans[l].startDate + loans[l].tenure
             [] loans[l].tenureUnit = "weeks" ->
                  loans[l].startDate + loans[l].tenure * 7
             [] loans[l].tenureUnit = "months" ->
                  AddMonths(loans[l].startDate, loans[l].tenure)

====
